---- MODULE Spec2Model ----
(***************************************************************************)
(* Volume GPU batch cache of source/blender/draw/intern/                   *)
(* draw_cache_impl_volume.cc: one Volume object, its VolumeBatchCache, the *)
(* heap of objects the cache allocates (cache record, grid entries, dense  *)
(* voxel buffers, GPU textures, vertex buffers, index buffers, batches)    *)
(* and the calls it makes to the volume backend and the GPU module.        *)
(*                                                                         *)
(* Abstractions: vertex positions, normals, voxel values and the           *)
(* texture_to_object matrices are data the cache only copies, and are left *)
(* out; a vertex buffer is its length, an index buffer its element list.   *)
(*                                                                         *)
(* Also: two preparation passes running the grid lookup of the same        *)
(* object statement by statement (SpecConc), and the video source of       *)
(* source/gameengine/VideoTexture/VideoBase.cpp (SpecVideo).               *)
(***************************************************************************)
EXTENDS Integers, Sequences, FiniteSets, TLC

(* ----------------------------- bounds --------------------------------- *)
MaxNames == 2
MaxChannels == 3
MaxVerts == 2
MaxEdges == 1
MaxTris == 1
MaxCalls == 2       \* calls of the grid lookup the preparation passes make
MaxSize == 2        \* widths and heights of a video image
MaxSamples == 2     \* distinct video samples

(* ------------------------- program constants -------------------------- *)
BKE_VOLUME_BATCH_DIRTY_ALL == 0

(* An address is the allocation site and an index within the site's pool. *)
NULL == <<"null", 0>>

(* VOLUME_WIREFRAME_NONE, the line modes (boxes stands for them), VOLUME_WIREFRAME_POINTS *)
WireframeTypes == {"NONE", "BOXES", "POINTS"}
GridNames == 1..MaxNames
Channels == 1..MaxChannels
DirtyModes == {BKE_VOLUME_BATCH_DIRTY_ALL, BKE_VOLUME_BATCH_DIRTY_ALL + 1}

(* ------------------------------- state -------------------------------- *)
VARIABLES
  batch_cache,      \* volume->batch_cache: NULL or the address of the cache record
  wireframe_type,   \* volume->display.wireframe_type
  heap,             \* heap[h]: the live object at address h
  stale,            \* the objects that were live at the last mark_dirty and still are
  loads,            \* loads[n]: the volume loads made for grid name n since the last invalidation
  last,             \* the last call: operation, inputs, return value, backend/GPU calls
  threads,          \* threads[t]: where preparation pass t is in its grid lookup, and its locals
  video             \* the VideoBase object and its last call

vars == <<batch_cache, wireframe_type, heap, stale, loads, last, threads, video>>

(* The machine state the C++ functions read and write, with the address    *)
(* of the last allocation, the return value of the innermost call, the     *)
(* log of the external calls made, the addresses released and the entry    *)
(* list as it was when the volume load was called.                         *)
Cur ==
  [batch_cache |-> batch_cache, wireframe_type |-> wireframe_type, heap |-> heap,
   new |-> NULL, ret |-> NULL, events |-> <<>>, freed |-> <<>>, at_load |-> <<>>]

Range(f) == {f[i] : i \in DOMAIN f}

(* The allocator hands out the lowest free index of the site's pool. *)
Alloc(m, site, obj) ==
  LET used == {h[2] : h \in {x \in DOMAIN m.heap : x[1] = site}}
      i == CHOOSE k \in 1..(Cardinality(used) + 1) :
             k \notin used /\ \A j \in 1..(k - 1) : j \in used
      a == <<site, i>>
  IN [m EXCEPT !.heap = [x \in DOMAIN m.heap \cup {a} |-> IF x = a THEN obj ELSE m.heap[x]],
               !.new = a]

(* Releasing an object; m.freed lists the addresses released, in order. *)
Release(m, h) ==
  IF h = NULL THEN m
  ELSE [m EXCEPT !.heap = [x \in DOMAIN m.heap \ {h} |-> m.heap[x]],
                 !.freed = Append(@, h)]

Emit(m, e) == [m EXCEPT !.events = Append(@, e)]

(* struct VolumeBatchCache after calloc / memset(0) and is_dirty = false *)
VolumeBatchCache ==
  [kind |-> "cache", grids |-> <<>>, pos_nor_in_order |-> NULL, batch |-> NULL,
   selection_surface |-> NULL, is_dirty |-> FALSE]

(* --------------------------- GPU module -------------------------------- *)
RECURSIVE ReleaseSeq(_, _)
ReleaseSeq(m, hs) ==
  IF hs = <<>> THEN m ELSE ReleaseSeq(Release(m, Head(hs)), Tail(hs))

(* GPU_batch_discard: the vertex buffers the batch owns, the index buffer  *)
(* if it owns it, and the batch.                                           *)
GPU_batch_discard(m, b) ==
  LET o == m.heap[b]
      owned == SelectSeq(o.verts, LAMBDA v : v \in o.owns_vbo)
      m1 == ReleaseSeq(m, owned)
      m2 == IF o.owns_index THEN Release(m1, o.elem) ELSE m1
  IN Release(m2, b)

(* ----------------------- cache management ------------------------------ *)
(* mutant: the validity test forgets the dirty flag *)
volume_batch_cache_valid_ignores_dirty(m) ==
  m.batch_cache # NULL

volume_batch_cache_valid(m) ==
  m.batch_cache # NULL /\ m.heap[m.batch_cache].is_dirty = FALSE

(* mutant: a cache that is present is not reset *)
volume_batch_cache_init_keeps_record(m) ==
  IF m.batch_cache = NULL
    THEN LET m1 == Alloc(m, "cache", VolumeBatchCache)
         IN [m1 EXCEPT !.batch_cache = m1.new]
    ELSE m

volume_batch_cache_init(m) ==
  IF m.batch_cache = NULL
    THEN LET m1 == Alloc(m, "cache", VolumeBatchCache)
         IN [m1 EXCEPT !.batch_cache = m1.new]
    ELSE [m EXCEPT !.heap[m.batch_cache] = VolumeBatchCache]

(* LISTBASE_FOREACH: MEM_SAFE_FREE(grid->name); GPU_TEXTURE_FREE_SAFE(grid->texture) *)
RECURSIVE FreeGridTextures(_, _)
FreeGridTextures(m, gs) ==
  IF gs = <<>> THEN m
  ELSE LET g == Head(gs)
           m1 == Release(m, m.heap[g].texture)
       IN FreeGridTextures([m1 EXCEPT !.heap[g].texture = NULL], Tail(gs))

BLI_freelistN(m, c) ==
  LET m1 == ReleaseSeq(m, m.heap[c].grids)
  IN [m1 EXCEPT !.heap[c].grids = <<>>]

GPU_VERTBUF_DISCARD_SAFE(m, c) ==
  LET m1 == Release(m, m.heap[c].pos_nor_in_order)
  IN [m1 EXCEPT !.heap[c].pos_nor_in_order = NULL]

GPU_BATCH_DISCARD_SAFE_face_wire(m, c) ==
  IF m.heap[c].batch = NULL THEN m
  ELSE LET m1 == GPU_batch_discard(m, m.heap[c].batch)
       IN [m1 EXCEPT !.heap[c].batch = NULL]

GPU_BATCH_DISCARD_SAFE_selection(m, c) ==
  IF m.heap[c].selection_surface = NULL THEN m
  ELSE LET m1 == GPU_batch_discard(m, m.heap[c].selection_surface)
       IN [m1 EXCEPT !.heap[c].selection_surface = NULL]

(* mutant: the clear forgets the selection surface *)
volume_batch_cache_clear_leaks_selection(m) ==
  IF m.batch_cache = NULL THEN m
  ELSE LET c == m.batch_cache
           m1 == FreeGridTextures(m, m.heap[c].grids)
           m2 == BLI_freelistN(m1, c)
           m3 == GPU_VERTBUF_DISCARD_SAFE(m2, c)
       IN GPU_BATCH_DISCARD_SAFE_face_wire(m3, c)

volume_batch_cache_clear(m) ==
  IF m.batch_cache = NULL THEN m
  ELSE LET c == m.batch_cache
           m1 == FreeGridTextures(m, m.heap[c].grids)
           m2 == BLI_freelistN(m1, c)
           m3 == GPU_VERTBUF_DISCARD_SAFE(m2, c)
           m4 == GPU_BATCH_DISCARD_SAFE_face_wire(m3, c)
       IN GPU_BATCH_DISCARD_SAFE_selection(m4, c)

(* mutant: the gate rebuilds the cache on every call *)
DRW_volume_batch_cache_validate_always_rebuilds(m) ==
  volume_batch_cache_init(volume_batch_cache_clear(m))

DRW_volume_batch_cache_validate(m) ==
  IF ~volume_batch_cache_valid(m)
    THEN volume_batch_cache_init(volume_batch_cache_clear(m))
    ELSE m

volume_batch_cache_get(m) ==
  LET m1 == DRW_volume_batch_cache_validate(m)
  IN [m1 EXCEPT !.ret = m1.batch_cache]

(* mutant: the tag releases the geometry at once *)
DRW_volume_batch_cache_dirty_tag_clears_eagerly(m, mode) ==
  IF m.batch_cache = NULL THEN m
  ELSE IF mode = BKE_VOLUME_BATCH_DIRTY_ALL
    THEN [volume_batch_cache_clear(m) EXCEPT !.heap[m.batch_cache].is_dirty = TRUE]
    ELSE Emit(m, "BLI_assert")

(* mutant: every mode sets the flag *)
DRW_volume_batch_cache_dirty_tag_any_mode(m, mode) ==
  IF m.batch_cache = NULL THEN m
  ELSE [m EXCEPT !.heap[m.batch_cache].is_dirty = TRUE]

(* mutant: the tag makes a cache for an object that has none *)
DRW_volume_batch_cache_dirty_tag_allocates(m, mode) ==
  LET m1 == IF m.batch_cache = NULL THEN volume_batch_cache_init(m) ELSE m
  IN IF mode = BKE_VOLUME_BATCH_DIRTY_ALL
       THEN [m1 EXCEPT !.heap[m1.batch_cache].is_dirty = TRUE]
       ELSE Emit(m1, "BLI_assert")

DRW_volume_batch_cache_dirty_tag(m, mode) ==
  IF m.batch_cache = NULL THEN m
  ELSE IF mode = BKE_VOLUME_BATCH_DIRTY_ALL
    THEN [m EXCEPT !.heap[m.batch_cache].is_dirty = TRUE]
    ELSE Emit(m, "BLI_assert")

DRW_volume_batch_cache_free(m) ==
  LET m1 == volume_batch_cache_clear(m)
      m2 == Release(m1, m1.batch_cache)
  IN [m2 EXCEPT !.batch_cache = NULL]

(* ------------------------ volume backend -------------------------------- *)
(* The edge list BKE_volume_grid_wireframe hands to its callback: totedge  *)
(* vertex-index pairs over totvert vertices.                               *)
BackendEdges(totvert, totedge) ==
  [i \in 1..totedge |-> <<(i - 1) % totvert, i % totvert>>]

(* The triangle list BKE_volume_grid_selection_surface hands to its callback. *)
BackendTris(totvert, tottris) ==
  [i \in 1..tottris |-> <<(i - 1) % totvert, i % totvert, (i + 1) % totvert>>]

(* BKE_volume_dense_float_grid_clear: frees dense_grid->voxels *)
BKE_volume_dense_float_grid_clear(m, voxels) ==
  Release(Emit(m, "BKE_volume_dense_float_grid_clear"), voxels)

(* ------------------------- wireframe builder --------------------------- *)
GPU_batch_vertbuf_add(m, b, vbo, own_vbo) ==
  [m EXCEPT !.heap[b].verts = Append(@, vbo),
            !.heap[b].owns_vbo = IF own_vbo THEN @ \cup {vbo} ELSE @]

(* mutant: the loop stops one edge short *)
LineIndexBuf_one_short(edges, totedge) ==
  [kind |-> "indexbuf", prim |-> "LINES",
   elems |-> [i \in 1..(totedge - 1) |-> <<edges[i][1], edges[i][2]>>]]

(* for (i < totedge) GPU_indexbuf_add_line_verts(&elb, edges[i][0], edges[i][1]) *)
LineIndexBuf(edges, totedge) ==
  [kind |-> "indexbuf", prim |-> "LINES",
   elems |-> [i \in 1..totedge |-> <<edges[i][1], edges[i][2]>>]]

(* mutant: the wireframe batch also owns the vertex buffer the cache keeps *)
drw_volume_wireframe_cb_batch_owns_vbo(m, edges, totvert, totedge) ==
  LET c == m.batch_cache
      m1 == Alloc(m, "pos_nor_in_order",
                  [kind |-> "vertbuf", format |-> "pos_nor", vertex_len |-> totvert])
      vbo == m1.new
      m2 == Alloc([m1 EXCEPT !.heap[c].pos_nor_in_order = vbo], "vbo_wiredata",
                  [kind |-> "vertbuf", format |-> "wd", vertex_len |-> totvert])
      vbo_wiredata == m2.new
      m3 == IF m.wireframe_type = "POINTS"
              THEN Alloc(m2, "face_wire",
                         [kind |-> "batch", prim |-> "POINTS", verts |-> <<vbo>>,
                          elem |-> NULL, owns_vbo |-> {vbo}, owns_index |-> FALSE])
              ELSE LET mi == Alloc(m2, "ibo", LineIndexBuf(edges, totedge))
                   IN Alloc(mi, "face_wire",
                            [kind |-> "batch", prim |-> "LINES", verts |-> <<vbo>>,
                             elem |-> mi.new, owns_vbo |-> {vbo}, owns_index |-> TRUE])
      batch == m3.new
  IN GPU_batch_vertbuf_add([m3 EXCEPT !.heap[c].batch = batch], batch, vbo_wiredata, TRUE)

(* mutant: the builder makes the point batch in every mode *)
drw_volume_wireframe_cb_always_points(m, edges, totvert, totedge) ==
  LET c == m.batch_cache
      m1 == Alloc(m, "pos_nor_in_order",
                  [kind |-> "vertbuf", format |-> "pos_nor", vertex_len |-> totvert])
      vbo == m1.new
      m2 == Alloc([m1 EXCEPT !.heap[c].pos_nor_in_order = vbo], "vbo_wiredata",
                  [kind |-> "vertbuf", format |-> "wd", vertex_len |-> totvert])
      vbo_wiredata == m2.new
      m3 == Alloc(m2, "face_wire",
                  [kind |-> "batch", prim |-> "POINTS", verts |-> <<vbo>>,
                   elem |-> NULL, owns_vbo |-> {}, owns_index |-> FALSE])
      batch == m3.new
  IN GPU_batch_vertbuf_add([m3 EXCEPT !.heap[c].batch = batch], batch, vbo_wiredata, TRUE)

(* mutant: the builder makes the line batch in every mode *)
drw_volume_wireframe_cb_always_lines(m, edges, totvert, totedge) ==
  LET c == m.batch_cache
      m1 == Alloc(m, "pos_nor_in_order",
                  [kind |-> "vertbuf", format |-> "pos_nor", vertex_len |-> totvert])
      vbo == m1.new
      m2 == Alloc([m1 EXCEPT !.heap[c].pos_nor_in_order = vbo], "vbo_wiredata",
                  [kind |-> "vertbuf", format |-> "wd", vertex_len |-> totvert])
      vbo_wiredata == m2.new
      mi == Alloc(m2, "ibo", LineIndexBuf(edges, totedge))
      m3 == Alloc(mi, "face_wire",
                  [kind |-> "batch", prim |-> "LINES", verts |-> <<vbo>>,
                   elem |-> mi.new, owns_vbo |-> {}, owns_index |-> TRUE])
      batch == m3.new
  IN GPU_batch_vertbuf_add([m3 EXCEPT !.heap[c].batch = batch], batch, vbo_wiredata, TRUE)

drw_volume_wireframe_cb(m, edges, totvert, totedge) ==
  LET c == m.batch_cache
      m1 == Alloc(m, "pos_nor_in_order",
                  [kind |-> "vertbuf", format |-> "pos_nor", vertex_len |-> totvert])
      vbo == m1.new
      m2 == Alloc([m1 EXCEPT !.heap[c].pos_nor_in_order = vbo], "vbo_wiredata",
                  [kind |-> "vertbuf", format |-> "wd", vertex_len |-> totvert])
      vbo_wiredata == m2.new
      m3 == IF m.wireframe_type = "POINTS"
              THEN Alloc(m2, "face_wire",
                         [kind |-> "batch", prim |-> "POINTS", verts |-> <<vbo>>,
                          elem |-> NULL, owns_vbo |-> {}, owns_index |-> FALSE])
              ELSE LET mi == Alloc(m2, "ibo", LineIndexBuf(edges, totedge))
                   IN Alloc(mi, "face_wire",
                            [kind |-> "batch", prim |-> "LINES", verts |-> <<vbo>>,
                             elem |-> mi.new, owns_vbo |-> {}, owns_index |-> TRUE])
      batch == m3.new
  IN GPU_batch_vertbuf_add([m3 EXCEPT !.heap[c].batch = batch], batch, vbo_wiredata, TRUE)

(* BKE_volume_grid_wireframe: the traversal, which invokes the callback once *)
BKE_volume_grid_wireframe(m, totvert, totedge) ==
  drw_volume_wireframe_cb(Emit(m, "BKE_volume_grid_wireframe"),
                          BackendEdges(totvert, totedge), totvert, totedge)

(* mutant: the accessor does not test the display mode *)
DRW_volume_batch_cache_get_wireframes_face_no_mode_test(m, has_active, totvert, totedge) ==
  LET m1 == volume_batch_cache_get(m)
      c == m1.ret
  IN IF m1.heap[c].batch = NULL
       THEN LET m2 == Emit(m1, "BKE_volume_grid_active_get_for_read")
            IN IF ~has_active THEN [m2 EXCEPT !.ret = NULL]
               ELSE LET m3 == BKE_volume_grid_wireframe(m2, totvert, totedge)
                    IN [m3 EXCEPT !.ret = m3.heap[c].batch]
       ELSE [m1 EXCEPT !.ret = m1.heap[c].batch]

(* mutant: the accessor runs the gate before it tests the display mode *)
DRW_volume_batch_cache_get_wireframes_face_gate_first(m, has_active, totvert, totedge) ==
  LET m1 == volume_batch_cache_get(m)
      c == m1.ret
  IN IF m.wireframe_type = "NONE" THEN [m1 EXCEPT !.ret = NULL]
     ELSE IF m1.heap[c].batch = NULL
            THEN LET m2 == Emit(m1, "BKE_volume_grid_active_get_for_read")
                 IN IF ~has_active THEN [m2 EXCEPT !.ret = NULL]
                    ELSE LET m3 == BKE_volume_grid_wireframe(m2, totvert, totedge)
                         IN [m3 EXCEPT !.ret = m3.heap[c].batch]
            ELSE [m1 EXCEPT !.ret = m1.heap[c].batch]

(* mutant: the accessor runs the traversal without an active grid *)
DRW_volume_batch_cache_get_wireframes_face_ignores_null_grid(m, has_active, totvert, totedge) ==
  IF m.wireframe_type = "NONE" THEN [m EXCEPT !.ret = NULL]
  ELSE LET m1 == volume_batch_cache_get(m)
           c == m1.ret
       IN IF m1.heap[c].batch = NULL
            THEN LET m2 == Emit(m1, "BKE_volume_grid_active_get_for_read")
                     m3 == BKE_volume_grid_wireframe(m2, totvert, totedge)
                 IN [m3 EXCEPT !.ret = m3.heap[c].batch]
            ELSE [m1 EXCEPT !.ret = m1.heap[c].batch]

DRW_volume_batch_cache_get_wireframes_face(m, has_active, totvert, totedge) ==
  IF m.wireframe_type = "NONE" THEN [m EXCEPT !.ret = NULL]
  ELSE LET m1 == volume_batch_cache_get(m)
           c == m1.ret
       IN IF m1.heap[c].batch = NULL
            THEN LET m2 == Emit(m1, "BKE_volume_grid_active_get_for_read")
                 IN IF ~has_active THEN [m2 EXCEPT !.ret = NULL]
                    ELSE LET m3 == BKE_volume_grid_wireframe(m2, totvert, totedge)
                         IN [m3 EXCEPT !.ret = m3.heap[c].batch]
            ELSE [m1 EXCEPT !.ret = m1.heap[c].batch]

(* ---------------------- selection-surface builder ---------------------- *)
(* for (i < tottris) GPU_indexbuf_add_tri_verts(&elb, UNPACK3(tris[i])) *)
TriIndexBuf(tris, tottris) ==
  [kind |-> "indexbuf", prim |-> "TRIS",
   elems |-> [i \in 1..tottris |-> <<tris[i][1], tris[i][2], tris[i][3]>>]]

(* mutant: the selection batch owns its vertex buffer only *)
drw_volume_selection_surface_cb_owns_vbo_only(m, tris, totvert, tottris) ==
  LET c == m.batch_cache
      m1 == Alloc(m, "vbo_surface",
                  [kind |-> "vertbuf", format |-> "pos", vertex_len |-> totvert])
      vbo_surface == m1.new
      m2 == Alloc(m1, "ibo_surface", TriIndexBuf(tris, tottris))
      ibo_surface == m2.new
      m3 == Alloc(m2, "selection_surface",
                  [kind |-> "batch", prim |-> "TRIS", verts |-> <<vbo_surface>>,
                   elem |-> ibo_surface, owns_vbo |-> {vbo_surface},
                   owns_index |-> FALSE])
  IN [m3 EXCEPT !.heap[c].selection_surface = m3.new]

(* mutant: the selection batch is stored in the wireframe batch field *)
drw_volume_selection_surface_cb_writes_wire_batch(m, tris, totvert, tottris) ==
  LET c == m.batch_cache
      m1 == Alloc(m, "vbo_surface",
                  [kind |-> "vertbuf", format |-> "pos", vertex_len |-> totvert])
      vbo_surface == m1.new
      m2 == Alloc(m1, "ibo_surface", TriIndexBuf(tris, tottris))
      ibo_surface == m2.new
      m3 == Alloc(m2, "selection_surface",
                  [kind |-> "batch", prim |-> "TRIS", verts |-> <<vbo_surface>>,
                   elem |-> ibo_surface, owns_vbo |-> {vbo_surface},
                   owns_index |-> TRUE])
  IN [m3 EXCEPT !.heap[c].batch = m3.new]

drw_volume_selection_surface_cb(m, tris, totvert, tottris) ==
  LET c == m.batch_cache
      m1 == Alloc(m, "vbo_surface",
                  [kind |-> "vertbuf", format |-> "pos", vertex_len |-> totvert])
      vbo_surface == m1.new
      m2 == Alloc(m1, "ibo_surface", TriIndexBuf(tris, tottris))
      ibo_surface == m2.new
      m3 == Alloc(m2, "selection_surface",
                  [kind |-> "batch", prim |-> "TRIS", verts |-> <<vbo_surface>>,
                   elem |-> ibo_surface, owns_vbo |-> {vbo_surface},
                   owns_index |-> TRUE])
  IN [m3 EXCEPT !.heap[c].selection_surface = m3.new]

BKE_volume_grid_selection_surface(m, totvert, tottris) ==
  drw_volume_selection_surface_cb(Emit(m, "BKE_volume_grid_selection_surface"),
                                  BackendTris(totvert, tottris), totvert, tottris)

DRW_volume_batch_cache_get_selection_surface(m, has_active, totvert, tottris) ==
  LET m1 == volume_batch_cache_get(m)
      c == m1.ret
  IN IF m1.heap[c].selection_surface = NULL
       THEN LET m2 == Emit(m1, "BKE_volume_grid_active_get_for_read")
            IN IF ~has_active THEN [m2 EXCEPT !.ret = NULL]
               ELSE LET m3 == BKE_volume_grid_selection_surface(m2, totvert, tottris)
                    IN [m3 EXCEPT !.ret = m3.heap[c].selection_surface]
       ELSE [m1 EXCEPT !.ret = m1.heap[c].selection_surface]

(* --------------------------- grid materializer ------------------------- *)
(* LISTBASE_FOREACH (cache_grid, &cache->grids) if (cache_grid->name == name) *)
(* mutant: the scan never matches a name *)
FindGrid_never_matches(m, gs, name) ==
  NULL

(* mutant: the scan looks at the first entry only *)
FindGrid_head_only(m, gs, name) ==
  IF gs = <<>> THEN NULL
  ELSE IF m.heap[Head(gs)].name = name THEN Head(gs)
  ELSE NULL

(* mutant: the scan passes over the entries that have no texture *)
RECURSIVE FindGrid_skips_null_texture(_, _, _)
FindGrid_skips_null_texture(m, gs, name) ==
  IF gs = <<>> THEN NULL
  ELSE IF m.heap[Head(gs)].name = name /\ m.heap[Head(gs)].texture # NULL THEN Head(gs)
  ELSE FindGrid_skips_null_texture(m, Tail(gs), name)

RECURSIVE FindGrid(_, _, _)
FindGrid(m, gs, name) ==
  IF gs = <<>> THEN NULL
  ELSE IF m.heap[Head(gs)].name = name THEN Head(gs)
  ELSE FindGrid(m, Tail(gs), name)

TextureFormat(channels) ==
  IF channels = 3 THEN "SFLOAT_16_16_16" ELSE "SFLOAT_16"

(* mutant: the swizzle is the single-channel one for every channel count *)
Swizzle_always_rrr1(channels) ==
  "rrr1"

Swizzle(channels) ==
  IF channels = 3 THEN "rgb1" ELSE "rrr1"

(* mutant: every channel count up to 3 is taken as supported *)
ChannelsSupported_up_to_three(channels) == channels <= 3

(* ELEM(channels, 1, 3) *)
ChannelsSupported(channels) == channels \in {1, 3}

(* GPU_texture_create_3d: a new texture with the GPU module's default      *)
(* swizzle and extend mode, or null when the device refuses it.            *)
GPU_texture_create_3d(m, cache_grid, format, tex_ok) ==
  LET m1 == Emit(m, "GPU_texture_create_3d")
  IN IF tex_ok
       THEN LET m2 == Alloc(m1, "texture",
                            [kind |-> "texture", format |-> format,
                             swizzle |-> "rgba", extend_mode |-> "EXTEND"])
            IN [m2 EXCEPT !.heap[cache_grid].texture = m2.new]
       ELSE [m1 EXCEPT !.heap[cache_grid].texture = NULL]

(* mutant: the failure path does not free the voxel buffer *)
BuildTexture_leaks_voxels(m, cache_grid, channels, tex_ok) ==
  LET mv == Alloc(m, "voxels", [kind |-> "voxels"])
      voxels == mv.new
      m2 == GPU_texture_create_3d(mv, cache_grid, TextureFormat(channels), tex_ok)
      texture == m2.heap[cache_grid].texture
  IN IF texture # NULL
       THEN LET m3 == Emit([m2 EXCEPT !.heap[texture].swizzle = Swizzle(channels)],
                           "GPU_texture_swizzle_set")
                m4 == Emit([m3 EXCEPT !.heap[texture].extend_mode = "CLAMP_TO_BORDER"],
                           "GPU_texture_extend_mode")
            IN BKE_volume_dense_float_grid_clear(m4, voxels)
       ELSE Emit(m2, "printf")

(* mutant: the success path frees the voxel buffer after the backend clear too *)
BuildTexture_frees_twice(m, cache_grid, channels, tex_ok) ==
  LET mv == Alloc(m, "voxels", [kind |-> "voxels"])
      voxels == mv.new
      m2 == GPU_texture_create_3d(mv, cache_grid, TextureFormat(channels), tex_ok)
      texture == m2.heap[cache_grid].texture
  IN IF texture # NULL
       THEN LET m3 == Emit([m2 EXCEPT !.heap[texture].swizzle = Swizzle(channels)],
                           "GPU_texture_swizzle_set")
                m4 == Emit([m3 EXCEPT !.heap[texture].extend_mode = "CLAMP_TO_BORDER"],
                           "GPU_texture_extend_mode")
            IN Release(BKE_volume_dense_float_grid_clear(m4, voxels), voxels)
       ELSE Emit(Release(Emit(m2, "MEM_freeN"), voxels), "printf")

(* the body of  if (BKE_volume_grid_dense_floats(...)) { ... }  when it is true *)
BuildTexture(m, cache_grid, channels, tex_ok) ==
  LET mv == Alloc(m, "voxels", [kind |-> "voxels"])
      voxels == mv.new
      m2 == GPU_texture_create_3d(mv, cache_grid, TextureFormat(channels), tex_ok)
      texture == m2.heap[cache_grid].texture
  IN IF texture # NULL
       THEN LET m3 == Emit([m2 EXCEPT !.heap[texture].swizzle = Swizzle(channels)],
                           "GPU_texture_swizzle_set")
                m4 == Emit([m3 EXCEPT !.heap[texture].extend_mode = "CLAMP_TO_BORDER"],
                           "GPU_texture_extend_mode")
            IN BKE_volume_dense_float_grid_clear(m4, voxels)
       ELSE Emit(Release(Emit(m2, "MEM_freeN"), voxels), "printf")

(* mutant: the new entry is put at the head of the list *)
volume_grid_cache_get_adds_head(m, grid, cache, dense_ok, tex_ok) ==
  LET found == FindGrid(m, m.heap[cache].grids, grid.name)
  IN IF found # NULL THEN [m EXCEPT !.ret = found]
     ELSE LET m1 == Alloc(m, "cache_grid",
                          [kind |-> "entry", name |-> grid.name, texture |-> NULL])
              cache_grid == m1.new
              m2 == [m1 EXCEPT !.heap[cache].grids = <<cache_grid>> \o @]
              m3 == [Emit(m2, "BKE_volume_load") EXCEPT !.at_load = m2.heap[cache].grids]
          IN IF ~ChannelsSupported(grid.channels) THEN [m3 EXCEPT !.ret = cache_grid]
             ELSE LET m4 == Emit(m3, "BKE_volume_grid_dense_floats")
                      m5 == IF dense_ok
                              THEN BuildTexture(m4, cache_grid, grid.channels, tex_ok)
                              ELSE m4
                  IN [m5 EXCEPT !.ret = cache_grid]

(* mutant: the result of the dense conversion is not tested *)
volume_grid_cache_get_ignores_dense_result(m, grid, cache, dense_ok, tex_ok) ==
  LET found == FindGrid(m, m.heap[cache].grids, grid.name)
  IN IF found # NULL THEN [m EXCEPT !.ret = found]
     ELSE LET m1 == Alloc(m, "cache_grid",
                          [kind |-> "entry", name |-> grid.name, texture |-> NULL])
              cache_grid == m1.new
              m2 == [m1 EXCEPT !.heap[cache].grids = Append(@, cache_grid)]
              m3 == [Emit(m2, "BKE_volume_load") EXCEPT !.at_load = m2.heap[cache].grids]
          IN IF ~ChannelsSupported(grid.channels) THEN [m3 EXCEPT !.ret = cache_grid]
             ELSE LET m4 == Emit(m3, "BKE_volume_grid_dense_floats")
                      m5 == BuildTexture(m4, cache_grid, grid.channels, tex_ok)
                  IN [m5 EXCEPT !.ret = cache_grid]

(* mutant: the volume is loaded before the new entry is in the list *)
volume_grid_cache_get_loads_first(m, grid, cache, dense_ok, tex_ok) ==
  LET found == FindGrid(m, m.heap[cache].grids, grid.name)
  IN IF found # NULL THEN [m EXCEPT !.ret = found]
     ELSE LET m0 == [Emit(m, "BKE_volume_load") EXCEPT !.at_load = m.heap[cache].grids]
              m1 == Alloc(m0, "cache_grid",
                          [kind |-> "entry", name |-> grid.name, texture |-> NULL])
              cache_grid == m1.new
              m3 == [m1 EXCEPT !.heap[cache].grids = Append(@, cache_grid)]
          IN IF ~ChannelsSupported(grid.channels) THEN [m3 EXCEPT !.ret = cache_grid]
             ELSE LET m4 == Emit(m3, "BKE_volume_grid_dense_floats")
                      m5 == IF dense_ok
                              THEN BuildTexture(m4, cache_grid, grid.channels, tex_ok)
                              ELSE m4
                  IN [m5 EXCEPT !.ret = cache_grid]

volume_grid_cache_get(m, grid, cache, dense_ok, tex_ok) ==
  LET found == FindGrid(m, m.heap[cache].grids, grid.name)
  IN IF found # NULL THEN [m EXCEPT !.ret = found]
     ELSE LET m1 == Alloc(m, "cache_grid",
                          [kind |-> "entry", name |-> grid.name, texture |-> NULL])
              cache_grid == m1.new
              m2 == [m1 EXCEPT !.heap[cache].grids = Append(@, cache_grid)]
              m3 == [Emit(m2, "BKE_volume_load") EXCEPT !.at_load = m2.heap[cache].grids]
          IN IF ~ChannelsSupported(grid.channels) THEN [m3 EXCEPT !.ret = cache_grid]
             ELSE LET m4 == Emit(m3, "BKE_volume_grid_dense_floats")
                      m5 == IF dense_ok
                              THEN BuildTexture(m4, cache_grid, grid.channels, tex_ok)
                              ELSE m4
                  IN [m5 EXCEPT !.ret = cache_grid]

(* mutant: the accessor returns the entry whatever its texture *)
DRW_volume_batch_cache_get_grid_returns_entry(m, grid, dense_ok, tex_ok) ==
  LET m1 == volume_batch_cache_get(m)
  IN volume_grid_cache_get(m1, grid, m1.ret, dense_ok, tex_ok)

DRW_volume_batch_cache_get_grid(m, grid, dense_ok, tex_ok) ==
  LET m1 == volume_batch_cache_get(m)
      m2 == volume_grid_cache_get(m1, grid, m1.ret, dense_ok, tex_ok)
      g == m2.ret
  IN [m2 EXCEPT !.ret = IF m2.heap[g].texture # NULL THEN g ELSE NULL]

(* ------------------------------- actions ------------------------------- *)
(* no preparation pass is running; no video source exists *)
NoThreads == <<>>
NoVideo == [op |-> "none"]

CacheState ==
  IF batch_cache = NULL THEN "absent"
  ELSE IF heap[batch_cache].is_dirty THEN "dirty" ELSE "valid"

(* The call returns: the object and the heap take the machine's state, and *)
(* the call is recorded: the operation, the inputs it read, what it        *)
(* returned, the external calls it made, the addresses it released and the *)
(* cache's state before it.                                                *)
Commit(m, op, input) ==
  /\ batch_cache' = m.batch_cache
  /\ wireframe_type' = m.wireframe_type
  /\ heap' = m.heap
  /\ stale' = IF op = "mark_dirty" /\ m.batch_cache # NULL /\ m.heap[m.batch_cache].is_dirty
                THEN DOMAIN m.heap \ {m.batch_cache}
                ELSE stale \ Range(m.freed)
  /\ loads' = [n \in GridNames |->
                (IF op = "release_all" \/ (CacheState = "dirty" /\ m.batch_cache # NULL
                                             /\ ~m.heap[m.batch_cache].is_dirty)
                   THEN 0 ELSE loads[n])
                + (IF op = "get_grid" /\ input[1] = n
                     THEN Cardinality({i \in DOMAIN m.events : m.events[i] = "BKE_volume_load"})
                     ELSE 0)]
  /\ last' = [op |-> op, input |-> input, ret |-> m.ret, events |-> m.events,
              freed |-> m.freed, at_load |-> m.at_load, was |-> CacheState]
  /\ UNCHANGED <<threads, video>>

Init ==
  /\ threads = NoThreads
  /\ video = NoVideo
  /\ batch_cache = NULL
  /\ wireframe_type \in WireframeTypes
  /\ heap = <<>>
  /\ stale = {}
  /\ loads = [n \in GridNames |-> 0]
  /\ last = [op |-> "none", input |-> <<0, 0>>, ret |-> NULL, events |-> <<>>,
             freed |-> <<>>, at_load |-> <<>>, was |-> "absent"]

EnsureValid ==
  Commit(DRW_volume_batch_cache_validate(Cur), "ensure_valid", <<0, 0>>)

(* input: the reason code *)
MarkDirty ==
  \E mode \in DirtyModes :
    Commit(DRW_volume_batch_cache_dirty_tag(Cur, mode), "mark_dirty", <<mode, 0>>)

ReleaseAll ==
  Commit(DRW_volume_batch_cache_free(Cur), "release_all", <<0, 0>>)

(* What BKE_volume_grid_dense_floats answered, if it was called. *)
DenseAnswer(m, dense_ok) ==
  IF "BKE_volume_grid_dense_floats" \notin Range(m.events) THEN "unasked"
  ELSE IF dense_ok THEN "ok" ELSE "failed"

(* name, channels: the grid reference; dense_ok, tex_ok: whether the       *)
(* backend's dense conversion and the GPU's texture creation succeed (an   *)
(* outcome is drawn only where the call can be made).  input: the name,    *)
(* the channel count if the call inspected it (0 if not), and what the     *)
(* dense conversion answered.                                              *)
GetGrid ==
  \E name \in GridNames, channels \in Channels :
    \E dense_ok \in IF ChannelsSupported(channels) THEN BOOLEAN ELSE {TRUE} :
      \E tex_ok \in IF ChannelsSupported(channels) /\ dense_ok THEN BOOLEAN ELSE {TRUE} :
        LET m == DRW_volume_batch_cache_get_grid(
                   Cur, [name |-> name, channels |-> channels], dense_ok, tex_ok)
        IN Commit(m, "get_grid",
                  <<name, IF "BKE_volume_load" \in Range(m.events) THEN channels ELSE 0,
                    DenseAnswer(m, dense_ok)>>)

(* What the backend answered when asked for the active grid. *)
ActiveAnswer(m, has_active) ==
  IF "BKE_volume_grid_active_get_for_read" \notin Range(m.events) THEN "unasked"
  ELSE IF has_active THEN "grid" ELSE "null"

(* has_active: whether the backend has an active grid; totvert, totedge:   *)
(* what the traversal supplies, drawn from VS and ES.  input: totvert and  *)
(* totedge if the traversal ran (0, 0 if not), and the backend's answer    *)
(* about the active grid.                                                  *)
GetWireframes(VS, ES) ==
  \E has_active \in BOOLEAN :
    \E totvert \in IF has_active THEN VS ELSE {1}, totedge \in IF has_active THEN ES ELSE {0} :
      LET m == DRW_volume_batch_cache_get_wireframes_face(Cur, has_active, totvert, totedge)
      IN Commit(m, "get_wireframes",
                IF "BKE_volume_grid_wireframe" \in Range(m.events)
                  THEN <<totvert, totedge, ActiveAnswer(m, has_active)>>
                  ELSE <<0, 0, ActiveAnswer(m, has_active)>>)

GetSelectionSurface(VS, TS) ==
  \E has_active \in BOOLEAN :
    \E totvert \in IF has_active THEN VS ELSE {1}, tottris \in IF has_active THEN TS ELSE {0} :
      LET m == DRW_volume_batch_cache_get_selection_surface(Cur, has_active, totvert,
                                                            tottris)
      IN Commit(m, "get_selection_surface",
                IF "BKE_volume_grid_selection_surface" \in Range(m.events)
                  THEN <<totvert, tottris, ActiveAnswer(m, has_active)>>
                  ELSE <<0, 0, ActiveAnswer(m, has_active)>>)

(* The user changes the object's wireframe display setting. *)
SetWireframeType ==
  \E t \in WireframeTypes :
    /\ t # wireframe_type
    /\ Commit([Cur EXCEPT !.wireframe_type = t], "set_wireframe_type", <<0, 0>>)

(* Every operation, the traversals supplying geometry of one size. *)
Next ==
  \/ EnsureValid
  \/ MarkDirty
  \/ ReleaseAll
  \/ GetGrid
  \/ GetWireframes({MaxVerts}, {MaxEdges})
  \/ GetSelectionSurface({MaxVerts}, {MaxTris})
  \/ SetWireframeType

Spec == Init /\ [][Next]_vars

(* The geometry builders alone, the traversals supplying every size. *)
NextGeom ==
  \/ EnsureValid
  \/ MarkDirty
  \/ ReleaseAll
  \/ GetWireframes(1..MaxVerts, 0..MaxEdges)
  \/ GetSelectionSurface(1..MaxVerts, 0..MaxTris)
  \/ SetWireframeType

SpecGeom == Init /\ [][NextGeom]_vars

(* ----------------------------- properties ------------------------------ *)
Cache == heap[batch_cache]

(* A batch with the buffers it owns. *)
BatchParts(hp, b) ==
  IF b = NULL THEN {}
  ELSE {b} \cup hp[b].owns_vbo \cup (IF hp[b].owns_index THEN {hp[b].elem} ELSE {})

(* Everything the cache record at c refers to and has to release. *)
Held(hp, c) ==
  (Range(hp[c].grids)
     \cup {hp[g].texture : g \in Range(hp[c].grids)}
     \cup {hp[c].pos_nor_in_order}
     \cup BatchParts(hp, hp[c].batch)
     \cup BatchParts(hp, hp[c].selection_surface)) \ {NULL}

Sites(hs) == {hs[i][1] : i \in DOMAIN hs}

NoDuplicates(hs) == \A i, j \in DOMAIN hs : hs[i] = hs[j] => i = j

(* C1: ensure_valid on a dirty cache releases, once each, every grid entry, *)
(* texture, vertex buffer, index buffer and batch the cache held, and      *)
(* leaves the same cache record present, not dirty, with an empty entry    *)
(* list and no wireframe or selection geometry.                            *)
C1_DirtyValidateReleasesAll ==
  [][(CacheState = "dirty" /\ last'.op = "ensure_valid") =>
       /\ Range(last'.freed) = Held(heap, batch_cache)
       /\ NoDuplicates(last'.freed)
       /\ batch_cache' = batch_cache
       /\ DOMAIN heap' = {batch_cache}
       /\ heap'[batch_cache] = [kind |-> "cache", grids |-> <<>>,
                                pos_nor_in_order |-> NULL, batch |-> NULL,
                                selection_surface |-> NULL, is_dirty |-> FALSE]]_vars

(* a dirty cache holding an entry with a texture, an entry without, line   *)
(* wireframe geometry and a selection surface has just been cleared        *)
C1_Witness ==
  /\ last.op = "ensure_valid" /\ last.was = "dirty"
  /\ Sites(last.freed) = {"cache_grid", "texture", "pos_nor_in_order", "vbo_wiredata", "ibo",
                          "face_wire", "vbo_surface", "ibo_surface", "selection_surface"}
  /\ Len(SelectSeq(last.freed, LAMBDA h : h[1] = "cache_grid")) = 2
  /\ Len(SelectSeq(last.freed, LAMBDA h : h[1] = "texture")) = 1

(* C2: ensure_valid on a present, not dirty cache changes nothing: no      *)
(* release, no allocation, no external call, the same heap and cache; so   *)
(* an ensure_valid that follows an ensure_valid changes nothing either.    *)
C2_ValidateIdempotent ==
  [][(last'.op = "ensure_valid" /\ (CacheState = "valid" \/ last.op = "ensure_valid")) =>
       /\ heap' = heap
       /\ batch_cache' = batch_cache
       /\ last'.freed = <<>>
       /\ last'.events = <<>>]_vars

(* ensure_valid has just run on a valid cache that holds entries and geometry *)
C2_Witness ==
  /\ last.op = "ensure_valid" /\ last.was = "valid"
  /\ Cache.grids # <<>> /\ Cache.batch # NULL /\ Cache.selection_surface # NULL

ReadAccessor ==
  \/ last.op \in {"get_grid", "get_selection_surface"}
  \/ last.op = "get_wireframes" /\ wireframe_type # "NONE"

(* what a returned entry or batch gives access to *)
Reach(h) ==
  IF h = NULL THEN {}
  ELSE IF heap[h].kind = "entry" THEN {h, heap[h].texture} \ {NULL}
  ELSE {h} \cup Range(heap[h].verts) \cup ({heap[h].elem} \ {NULL})

(* C3: a read accessor leaves the cache valid, and the entry, texture,     *)
(* batch and buffers it returns were not live at the last mark_dirty.      *)
C3_NoStaleRead ==
  ReadAccessor =>
    /\ CacheState = "valid"
    /\ Reach(last.ret) \cap stale = {}
    /\ Reach(last.ret) \subseteq DOMAIN heap

(* an accessor called on a dirty, populated cache returned a rebuilt entry *)
C3_Witness ==
  /\ last.op = "get_grid" /\ last.was = "dirty"
  /\ last.ret # NULL /\ last.ret \in Range(last.freed)

(* the entries of the cache that carry the grid name n *)
EntriesNamed(hp, c, n) == {g \in Range(hp[c].grids) : hp[g].name = n}

(* C4: get_or_build_grid for a name the valid cache already has an entry   *)
(* for changes nothing on the heap, makes no external call and returns     *)
(* what that entry gives (the entry when it has a texture); a lookup that  *)
(* directly follows a lookup of the same name returns the same value.      *)
C4_GridLookupMemoized ==
  [][/\ ((/\ last'.op = "get_grid"
          /\ CacheState = "valid"
          /\ EntriesNamed(heap, batch_cache, last'.input[1]) # {})
           => (/\ heap' = heap
               /\ last'.events = <<>>
               /\ last'.freed = <<>>
               /\ \E g \in EntriesNamed(heap, batch_cache, last'.input[1]) :
                    last'.ret = IF heap[g].texture # NULL THEN g ELSE NULL))
      /\ ((/\ last.op = "get_grid" /\ last'.op = "get_grid"
           /\ last'.input[1] = last.input[1])
           => (/\ last'.ret = last.ret
               /\ heap' = heap
               /\ last'.events = <<>>))]_vars

(* a lookup has hit an existing entry and returned it with its texture *)
C4_Witness ==
  /\ last.op = "get_grid" /\ last.events = <<>> /\ last.ret # NULL
  /\ heap[last.ret].texture \in DOMAIN heap

(* C5 as stated: get_or_build_grid never returns null *)
C5_Original_AlwaysReturnsEntry ==
  last.op = "get_grid" => last.ret # NULL

(* C5 amended: get_or_build_grid always leaves exactly one entry for the   *)
(* grid's name in the cache, and returns that entry when its texture is    *)
(* not null and null when its texture is null.                             *)
C5_ReturnsEntryIffTexture ==
  last.op = "get_grid" =>
    \E g \in EntriesNamed(heap, batch_cache, last.input[1]) :
      /\ EntriesNamed(heap, batch_cache, last.input[1]) = {g}
      /\ heap[g].texture = NULL => last.ret = NULL
      /\ heap[g].texture # NULL => last.ret = g

(* a build has failed softly: the entry is cached, the accessor returned null *)
C5_Witness ==
  /\ last.op = "get_grid" /\ last.ret = NULL
  /\ \E g \in EntriesNamed(heap, batch_cache, last.input[1]) : heap[g].texture = NULL
  /\ "GPU_texture_create_3d" \in Range(last.events)

(* C6: a lookup that builds an entry for a grid whose channel count is     *)
(* neither 1 nor 3 appends one entry with a null texture, calls only the   *)
(* volume load, allocates no voxel buffer and no texture, returns null.    *)
C6_UnsupportedChannelsSoftMiss ==
  [][(last'.op = "get_grid" /\ last'.input[2] \notin {0, 1, 3}) =>
       LET c == batch_cache'
           before == IF CacheState = "valid" THEN Cache.grids ELSE <<>>
           g == heap'[c].grids[Len(heap'[c].grids)]
       IN /\ Len(heap'[c].grids) = Len(before) + 1
          /\ SubSeq(heap'[c].grids, 1, Len(before)) = before
          /\ heap'[g] = [kind |-> "entry", name |-> last'.input[1], texture |-> NULL]
          /\ last'.events = <<"BKE_volume_load">>
          /\ {h \in DOMAIN heap' : h[1] \in {"texture", "voxels"}}
               = {h \in DOMAIN heap : h[1] \in {"texture", "voxels"}} \ Range(last'.freed)
          /\ last'.ret = NULL]_vars

(* a two-channel grid has been looked up in a cache that had another entry *)
C6_Witness ==
  /\ last.op = "get_grid" /\ last.input[2] = 2
  /\ Len(Cache.grids) = 2

Textures == {h \in DOMAIN heap : heap[h].kind = "texture"}

(* C7: a texture created by the lookup has the format and swizzle of the   *)
(* channel count (1: SFLOAT_16, rrr1; 3: SFLOAT_16_16_16, rgb1) and the    *)
(* clamp-to-border extend mode; every texture in the cache is one of the   *)
(* two.                                                                    *)
C7_FormatAndSwizzleByChannels ==
  /\ (last.op = "get_grid" /\ "GPU_texture_create_3d" \in Range(last.events)
        /\ last.ret # NULL)
       => LET t == heap[heap[last.ret].texture]
          IN /\ last.input[2] \in {1, 3}
             /\ last.input[2] = 1 => t.format = "SFLOAT_16" /\ t.swizzle = "rrr1"
             /\ last.input[2] = 3 => t.format = "SFLOAT_16_16_16" /\ t.swizzle = "rgb1"
             /\ t.extend_mode = "CLAMP_TO_BORDER"
  /\ \A h \in Textures :
       /\ <<heap[h].format, heap[h].swizzle>>
            \in {<<"SFLOAT_16", "rrr1">>, <<"SFLOAT_16_16_16", "rgb1">>}
       /\ heap[h].extend_mode = "CLAMP_TO_BORDER"

(* a three-channel texture has just been created *)
C7_Witness ==
  /\ last.op = "get_grid" /\ last.input[2] = 3 /\ last.ret # NULL
  /\ "GPU_texture_create_3d" \in Range(last.events)

Count(seq, x) == Cardinality({i \in DOMAIN seq : seq[i] = x})

(* C8: when the texture creation the lookup attempted has given no        *)
(* texture, the voxel buffer is released exactly once (by MEM_freeN, not   *)
(* by the backend clear) and none stays allocated, the entry is in the     *)
(* cache with its null texture, null is returned, the swizzle and extend   *)
(* mode are not set and no assertion is hit.                               *)
C8_TextureFailureFreesVoxelsOnce ==
  (/\ last.op = "get_grid"
   /\ "GPU_texture_create_3d" \in Range(last.events)
   /\ \E g \in EntriesNamed(heap, batch_cache, last.input[1]) : heap[g].texture = NULL)
    => /\ Len(SelectSeq(last.freed, LAMBDA h : h[1] = "voxels")) = 1
       /\ {h \in DOMAIN heap : h[1] = "voxels"} = {}
       /\ Count(last.events, "MEM_freeN") = 1
       /\ "BKE_volume_dense_float_grid_clear" \notin Range(last.events)
       /\ "GPU_texture_swizzle_set" \notin Range(last.events)
       /\ "GPU_texture_extend_mode" \notin Range(last.events)
       /\ "BLI_assert" \notin Range(last.events)
       /\ Cardinality(EntriesNamed(heap, batch_cache, last.input[1])) = 1
       /\ last.ret = NULL

(* texture creation has failed for a one-channel grid on a cleared cache *)
C8_Witness ==
  /\ last.op = "get_grid" /\ last.input[2] = 1 /\ last.was = "dirty"
  /\ last.events = <<"BKE_volume_load", "BKE_volume_grid_dense_floats",
                     "GPU_texture_create_3d", "MEM_freeN", "printf">>

(* C9: get_wireframes in display mode "none" returns null and makes no     *)
(* external call.                                                          *)
C9_WireframeNoneTouchesNothing ==
  (last.op = "get_wireframes" /\ wireframe_type = "NONE") =>
    /\ last.ret = NULL
    /\ last.events = <<>>

(* get_wireframes ran in mode "none" on a dirty cache that holds a wireframe batch *)
C9_Witness ==
  /\ last.op = "get_wireframes" /\ wireframe_type = "NONE"
  /\ last.was = "dirty" /\ Cache.batch # NULL

C11_OneEntryPerName ==
  batch_cache # NULL =>
    /\ NoDuplicates(Cache.grids)
    /\ \A n \in GridNames : Cardinality(EntriesNamed(heap, batch_cache, n)) <= 1
    /\ \A g \in Range(Cache.grids) : heap[g].name \in GridNames

C11_Witness ==
  /\ last.op = "get_grid" /\ last.was = "valid" /\ last.events = <<>>
  /\ Len(Cache.grids) = MaxNames
  /\ \A n \in GridNames : Cardinality(EntriesNamed(heap, batch_cache, n)) = 1

(* C12: after ensure_valid the cache is present and not dirty; a cache     *)
(* that was absent is a newly allocated empty record, a cache that was     *)
(* dirty is the same record emptied with nothing else left allocated, a    *)
(* cache that was valid is left as it was.                                 *)
C12_EnsureValidGate ==
  [][last'.op = "ensure_valid" =>
       /\ batch_cache' # NULL
       /\ heap'[batch_cache'].is_dirty = FALSE
       /\ (CacheState = "absent" =>
             (/\ heap'[batch_cache'] = VolumeBatchCache
              /\ DOMAIN heap' = {batch_cache'}
              /\ last'.freed = <<>>))
       /\ (CacheState = "dirty" =>
             (/\ batch_cache' = batch_cache
              /\ heap'[batch_cache'] = VolumeBatchCache
              /\ DOMAIN heap' = {batch_cache'}))
       /\ (CacheState = "valid" =>
             (/\ batch_cache' = batch_cache
              /\ heap' = heap
              /\ last'.freed = <<>>))]_vars

C12_Witness ==
  /\ last.op = "ensure_valid" /\ last.was = "dirty"
  /\ Cache = VolumeBatchCache
  /\ {"cache_grid", "face_wire", "selection_surface"} \subseteq Sites(last.freed)

(* C13: mark_dirty with the all-data reason changes the dirty flag and      *)
(* nothing else: it releases nothing, makes no external call, leaves the   *)
(* entry list, the wireframe and the selection geometry and every live     *)
(* object as they were; without a cache it creates none and changes        *)
(* nothing.                                                                *)
C13_MarkDirtyOnlySetsFlag ==
  [][(last'.op = "mark_dirty" /\ last'.input[1] = BKE_VOLUME_BATCH_DIRTY_ALL) =>
       /\ batch_cache' = batch_cache
       /\ last'.freed = <<>>
       /\ last'.events = <<>>
       /\ wireframe_type' = wireframe_type
       /\ (batch_cache = NULL => heap' = heap)
       /\ (batch_cache # NULL =>
             (/\ heap' = [heap EXCEPT ![batch_cache].is_dirty = TRUE]
              /\ Held(heap', batch_cache) = Held(heap, batch_cache)
              /\ Held(heap', batch_cache) \subseteq DOMAIN heap'))]_vars

C13_Witness ==
  /\ last.op = "mark_dirty" /\ last.input[1] = BKE_VOLUME_BATCH_DIRTY_ALL
  /\ last.was = "valid" /\ CacheState = "dirty"
  /\ Textures # {} /\ Cache.batch \in DOMAIN heap /\ Cache.selection_surface \in DOMAIN heap

(* C14: mark_dirty with a reason other than the all-data one, on an object *)
(* that has a cache, reaches the assertion and nothing else: the dirty     *)
(* flag and the whole heap stay as they were and no value is returned.     *)
C14_UnknownReasonAsserts ==
  [][(/\ last'.op = "mark_dirty"
      /\ last'.input[1] # BKE_VOLUME_BATCH_DIRTY_ALL
      /\ batch_cache # NULL) =>
       /\ last'.events = <<"BLI_assert">>
       /\ last'.ret = NULL
       /\ last'.freed = <<>>
       /\ batch_cache' = batch_cache
       /\ heap' = heap
       /\ CacheState' = CacheState]_vars

C14_Witness ==
  /\ last.op = "mark_dirty" /\ last.input[1] # BKE_VOLUME_BATCH_DIRTY_ALL
  /\ last.events = <<"BLI_assert">>
  /\ last.was = "valid" /\ CacheState = "valid"

(* Every live object is the cache record or something the cache holds. *)
NoLeak ==
  DOMAIN heap = IF batch_cache = NULL THEN {} ELSE {batch_cache} \cup Held(heap, batch_cache)

(* C15: nothing allocated is ever out of the cache's reach, no call        *)
(* releases an address twice, and release_all releases every live object   *)
(* (textures, buffers, batches, entries, the cache record) exactly once,   *)
(* leaving the object without a cache and nothing allocated.               *)
C15_ReleaseAllExactlyOnce ==
  /\ []NoLeak
  /\ [][/\ NoDuplicates(last'.freed)
        /\ (last'.op = "release_all" =>
              (/\ Range(last'.freed) = DOMAIN heap
               /\ DOMAIN heap' = {}
               /\ batch_cache' = NULL))]_vars

C15_Witness ==
  /\ last.op = "release_all"
  /\ wireframe_type = "POINTS"
  /\ Sites(last.freed) = {"cache", "cache_grid", "texture", "pos_nor_in_order", "vbo_wiredata",
                          "face_wire", "vbo_surface", "ibo_surface", "selection_surface"}
  /\ Len(SelectSeq(last.freed, LAMBDA h : h[1] = "texture")) = MaxNames

(* the cache at c has an entry for the name n whose texture is null *)
NullEntry(hp, c, n) ==
  c # NULL /\ \E g \in EntriesNamed(hp, c, n) : hp[g].texture = NULL

(* C16: a lookup of a name whose entry in the valid cache has a null       *)
(* texture returns null with no external call and no change; the entry     *)
(* stays as it is through every call but release_all and the gate run on   *)
(* a dirty cache; a lookup on a dirty or absent cache starts the build     *)
(* again with the volume load.                                             *)
C16_NoRetryUntilInvalidated ==
  [][/\ ((/\ last'.op = "get_grid"
          /\ CacheState = "valid"
          /\ NullEntry(heap, batch_cache, last'.input[1]))
           => (/\ last'.ret = NULL
               /\ last'.events = <<>>
               /\ heap' = heap))
     /\ \A n \in GridNames :
          ((/\ NullEntry(heap, batch_cache, n)
            /\ last'.op # "release_all"
            /\ ~(CacheState = "dirty" /\ CacheState' = "valid"))
             => NullEntry(heap', batch_cache', n))
     /\ ((last'.op = "get_grid" /\ CacheState # "valid" /\ last' # last)
           => (/\ Head(last'.events) = "BKE_volume_load"
               /\ Len(heap'[batch_cache'].grids) = 1))]_vars

C16_Witness ==
  /\ last.op = "get_grid" /\ last.was = "valid"
  /\ last.events = <<>> /\ last.ret = NULL
  /\ NullEntry(heap, batch_cache, last.input[1])
  /\ loads[last.input[1]] = 1

(* C17: the volume is loaded once for every name that has an entry and     *)
(* never for another: the loads made for a name since the last             *)
(* invalidation are as many as its entries, at most one.  A lookup that    *)
(* finds an entry in the valid cache loads nothing; a lookup that finds    *)
(* none loads once, as its first external call, whatever the channel       *)
(* count, and the list the load sees ends with the new entry.              *)
C17_LoadOnlyOnMiss ==
  /\ [](\A n \in GridNames :
          /\ loads[n] <= 1
          /\ loads[n] = IF batch_cache = NULL THEN 0
                        ELSE Cardinality(EntriesNamed(heap, batch_cache, n)))
  /\ [][(last'.op = "get_grid" /\ last' # last) =>
          LET name == last'.input[1]
              hit == CacheState = "valid" /\ EntriesNamed(heap, batch_cache, name) # {}
          IN /\ Count(last'.events, "BKE_volume_load") = IF hit THEN 0 ELSE 1
             /\ (~hit =>
                   (/\ Head(last'.events) = "BKE_volume_load"
                    /\ last'.input[2] \in Channels
                    /\ last'.at_load # <<>>
                    /\ last'.at_load = heap'[batch_cache'].grids
                    /\ LET g == last'.at_load[Len(last'.at_load)]
                       IN /\ heap'[g].name = name
                          /\ g \notin (IF CacheState = "valid"
                                         THEN Range(heap[batch_cache].grids) ELSE {})))
             /\ (hit => last'.at_load = <<>>)]_vars

C17_Witness ==
  /\ last.op = "get_grid" /\ last.was = "valid"
  /\ last.events = <<"BKE_volume_load">> /\ last.input[2] = 2
  /\ Len(last.at_load) = MaxNames
  /\ \A n \in GridNames : loads[n] = 1

(* the gate will leave the cache without a wireframe batch *)
NoCachedWire == CacheState # "valid" \/ heap[batch_cache].batch = NULL

WireObjects(hp) ==
  {h \in DOMAIN hp : h[1] \in {"pos_nor_in_order", "vbo_wiredata", "ibo", "face_wire"}}

(* C18: get_wireframes in a mode other than "none", with no wireframe      *)
(* batch cached, asks for the active grid; when there is none it returns   *)
(* null, does not run the traversal and leaves the cache valid with no     *)
(* wireframe object; when there is one it runs the traversal and returns   *)
(* the batch it has put in the cache.                                      *)
C18_NullActiveGridWireframes ==
  [][(/\ last'.op = "get_wireframes"
      /\ wireframe_type # "NONE"
      /\ NoCachedWire)
       => /\ last'.input[3] \in {"null", "grid"}
          /\ CacheState' = "valid"
          /\ (last'.input[3] = "null" =>
                (/\ last'.ret = NULL
                 /\ last'.events = <<"BKE_volume_grid_active_get_for_read">>
                 /\ heap'[batch_cache'].batch = NULL
                 /\ heap'[batch_cache'].pos_nor_in_order = NULL
                 /\ WireObjects(heap') = {}))
          /\ (last'.input[3] = "grid" =>
                (/\ last'.ret # NULL
                 /\ last'.ret \in DOMAIN heap'
                 /\ heap'[batch_cache'].batch = last'.ret
                 /\ Count(last'.events, "BKE_volume_grid_wireframe") = 1))]_vars

(* get_wireframes found no active grid after the gate had cleared a dirty cache *)
C18_Witness ==
  /\ last.op = "get_wireframes" /\ last.input[3] = "null"
  /\ wireframe_type # "NONE" /\ last.was = "dirty"
  /\ last.ret = NULL /\ last.freed # <<>>
  /\ Cache.batch = NULL

(* the gate will leave the cache without a selection batch *)
NoCachedSelection == CacheState # "valid" \/ heap[batch_cache].selection_surface = NULL

(* C19: get_selection_surface leaves the cache valid.  With nothing cached *)
(* and no active grid it returns null and runs no traversal; with an       *)
(* active grid and a traversal of V vertices and T triangles it returns a  *)
(* TRIS batch that owns its one vertex buffer, of V positions, and its     *)
(* index buffer, of the T triangles in order; with a batch cached it       *)
(* returns that batch, runs no traversal and changes nothing.              *)
C19_SelectionSurfaceBatch ==
  [][last'.op = "get_selection_surface" =>
       /\ CacheState' = "valid"
       /\ (NoCachedSelection =>
             (/\ last'.input[3] \in {"null", "grid"}
              /\ (last'.input[3] = "null" =>
                    (/\ last'.ret = NULL
                     /\ last'.events = <<"BKE_volume_grid_active_get_for_read">>
                     /\ heap'[batch_cache'].selection_surface = NULL))
              /\ (last'.input[3] = "grid" =>
                    LET b == heap'[last'.ret]
                        V == last'.input[1]
                        T == last'.input[2]
                    IN /\ heap'[batch_cache'].selection_surface = last'.ret
                       /\ Count(last'.events, "BKE_volume_grid_selection_surface") = 1
                       /\ b.kind = "batch" /\ b.prim = "TRIS"
                       /\ Len(b.verts) = 1
                       /\ b.owns_vbo = {b.verts[1]}
                       /\ heap'[b.verts[1]].format = "pos"
                       /\ heap'[b.verts[1]].vertex_len = V
                       /\ b.owns_index
                       /\ heap'[b.elem].prim = "TRIS"
                       /\ Len(heap'[b.elem].elems) = T
                       /\ \A i \in 1..T :
                            heap'[b.elem].elems[i] = <<(i - 1) % V, i % V, (i + 1) % V>>)))
       /\ (~NoCachedSelection =>
             (/\ last'.ret = heap[batch_cache].selection_surface
              /\ last'.events = <<>>
              /\ heap' = heap))]_vars

(* a second get_selection_surface has returned the cached batch of the largest size *)
C19_Witness ==
  /\ last.op = "get_selection_surface" /\ last.was = "valid"
  /\ last.events = <<>> /\ last.ret # NULL
  /\ Len(heap[heap[last.ret].elem].elems) = MaxTris
  /\ heap[heap[last.ret].verts[1]].vertex_len = MaxVerts

(* C20: the batch the wireframe builder makes in display mode "points" is  *)
(* a POINTS batch without an index buffer, and no index buffer is          *)
(* allocated, whatever the edges supplied; in the other modes it is a      *)
(* LINES batch that owns its live index buffer.                            *)
C20_PointsOrLinesByMode ==
  [][(/\ last'.op = "get_wireframes"
      /\ "BKE_volume_grid_wireframe" \in Range(last'.events))
       => LET b == heap'[last'.ret]
          IN /\ b.kind = "batch"
             /\ (wireframe_type = "POINTS" =>
                   (/\ b.prim = "POINTS"
                    /\ b.elem = NULL
                    /\ ~b.owns_index
                    /\ {h \in DOMAIN heap' : heap'[h].kind = "indexbuf" /\ h[1] = "ibo"} = {}))
             /\ (wireframe_type # "POINTS" =>
                   (/\ wireframe_type # "NONE"
                    /\ b.prim = "LINES"
                    /\ b.owns_index
                    /\ b.elem \in DOMAIN heap'
                    /\ heap'[b.elem].kind = "indexbuf"
                    /\ heap'[b.elem].prim = "LINES"))]_vars

(* the builder has made a point batch from a traversal that supplied edges *)
C20_Witness ==
  /\ last.op = "get_wireframes" /\ wireframe_type = "POINTS"
  /\ "BKE_volume_grid_wireframe" \in Range(last.events)
  /\ last.input[2] = MaxEdges /\ MaxEdges > 0
  /\ heap[last.ret].prim = "POINTS" /\ heap[last.ret].elem = NULL

(* the gate clears the cache in this step, or the cache is released *)
Invalidated ==
  \/ last'.op = "release_all"
  \/ CacheState = "dirty" /\ CacheState' = "valid"

(* C21: but for release_all and the gate on a dirty cache, a step keeps     *)
(* the entries the list had, in their order and with their names and       *)
(* textures, and adds at most one, at the tail, in the first lookup of     *)
(* its name.                                                               *)
C21_GridListOnlyGrows ==
  [][(batch_cache # NULL /\ ~Invalidated) =>
       LET old == heap[batch_cache].grids
           new == heap'[batch_cache'].grids
       IN /\ batch_cache' = batch_cache
          /\ Len(new) \in {Len(old), Len(old) + 1}
          /\ SubSeq(new, 1, Len(old)) = old
          /\ \A g \in Range(old) : heap'[g] = heap[g]
          /\ (Len(new) = Len(old) + 1 =>
                (/\ last'.op = "get_grid"
                 /\ heap'[new[Len(new)]].name = last'.input[1]
                 /\ new[Len(new)] \notin DOMAIN heap
                 /\ EntriesNamed(heap, batch_cache, last'.input[1]) = {}))]_vars

(* a lookup has appended the entry of a second name behind one that has a texture *)
C21_Witness ==
  /\ last.op = "get_grid" /\ last.was = "valid"
  /\ "BKE_volume_load" \in Range(last.events)
  /\ Len(Cache.grids) = 2
  /\ heap[Cache.grids[2]].name = last.input[1]
  /\ heap[Cache.grids[1]].texture \in DOMAIN heap

Voxels(hs) == SelectSeq(hs, LAMBDA h : h[1] = "voxels")

(* C24: no voxel buffer is allocated in any state between calls; a lookup  *)
(* whose dense conversion succeeded has released one voxel buffer, once:   *)
(* when the entry has its texture, by the backend clear called last,       *)
(* after the swizzle and the extend mode, and without MEM_freeN; when it   *)
(* has none, by MEM_freeN and without the backend clear.  No other call    *)
(* releases a voxel buffer.                                                *)
C24_VoxelsReleasedOnce ==
  /\ {h \in DOMAIN heap : h[1] = "voxels"} = {}
  /\ Len(Voxels(last.freed)) = IF last.op = "get_grid" /\ last.input[3] = "ok" THEN 1 ELSE 0
  /\ (last.op = "get_grid" /\ last.input[3] = "ok") =>
       LET g == CHOOSE e \in EntriesNamed(heap, batch_cache, last.input[1]) : TRUE
       IN /\ Cardinality(EntriesNamed(heap, batch_cache, last.input[1])) = 1
          /\ (heap[g].texture # NULL =>
                last.events = <<"BKE_volume_load", "BKE_volume_grid_dense_floats",
                                "GPU_texture_create_3d", "GPU_texture_swizzle_set",
                                "GPU_texture_extend_mode",
                                "BKE_volume_dense_float_grid_clear">>)
          /\ (heap[g].texture = NULL =>
                last.events = <<"BKE_volume_load", "BKE_volume_grid_dense_floats",
                                "GPU_texture_create_3d", "MEM_freeN", "printf">>)

(* a lookup on a dirty cache has built a three-channel texture and released the voxels *)
C24_Witness ==
  /\ last.op = "get_grid" /\ last.input[3] = "ok" /\ last.input[2] = 3
  /\ last.was = "dirty" /\ last.ret # NULL
  /\ Len(Voxels(last.freed)) = 1
  /\ "BKE_volume_dense_float_grid_clear" \in Range(last.events)

(* C27: a lookup whose dense conversion failed, for one or three channels, *)
(* has called the load and the conversion only, has created no texture,    *)
(* released no voxel buffer, and has left one entry of the name, with a    *)
(* null texture, and returned null; a lookup of a name whose entry in the  *)
(* valid cache has a null texture does not call the conversion.            *)
C27_DenseFailureSoftMiss ==
  /\ [](last.op = "get_grid" /\ last.input[3] = "failed" =>
          /\ last.input[2] \in {1, 3}
          /\ last.events = <<"BKE_volume_load", "BKE_volume_grid_dense_floats">>
          /\ Voxels(last.freed) = <<>>
          /\ last.ret = NULL
          /\ Cardinality(EntriesNamed(heap, batch_cache, last.input[1])) = 1
          /\ \A g \in EntriesNamed(heap, batch_cache, last.input[1]) : heap[g].texture = NULL
          /\ Cardinality(Textures) =
               Cardinality({g \in Range(Cache.grids) : heap[g].texture # NULL}))
  /\ [][(/\ last'.op = "get_grid"
         /\ CacheState = "valid"
         /\ NullEntry(heap, batch_cache, last'.input[1]))
          => (/\ last'.input[3] = "unasked"
              /\ "BKE_volume_grid_dense_floats" \notin Range(last'.events)
              /\ Textures' = Textures
              /\ last'.ret = NULL)]_vars

(* the dense conversion has failed for a second, three-channel grid *)
C27_Witness ==
  /\ last.op = "get_grid" /\ last.input[3] = "failed" /\ last.input[2] = 3
  /\ last.was = "valid" /\ Len(Cache.grids) = 2

(* C25: get_wireframes in display mode "none" changes nothing: the object  *)
(* keeps its cache pointer, the heap is the same (an absent cache stays    *)
(* absent, a dirty one dirty with everything it holds, a built batch       *)
(* cached), nothing is released and no external call is made.              *)
C25_WireframeNoneSkipsGate ==
  [][(last'.op = "get_wireframes" /\ wireframe_type = "NONE") =>
       /\ batch_cache' = batch_cache
       /\ heap' = heap
       /\ CacheState' = CacheState
       /\ last'.was = CacheState
       /\ last'.freed = <<>>
       /\ last'.events = <<>>
       /\ last'.ret = NULL]_vars

(* get_wireframes ran in mode "none" on a dirty cache that still holds both batches *)
C25_Witness ==
  /\ last.op = "get_wireframes" /\ wireframe_type = "NONE"
  /\ last.was = "dirty" /\ CacheState = "dirty"
  /\ Cache.batch \in DOMAIN heap /\ Cache.selection_surface \in DOMAIN heap
  /\ Cache.pos_nor_in_order \in DOMAIN heap

(* the primitive and index buffer the display mode t asks of the batch b *)
AgreesWithMode(b, t) ==
  IF t = "POINTS" THEN b.prim = "POINTS" /\ b.elem = NULL
  ELSE b.prim = "LINES" /\ b.elem # NULL

(* C26 as stated: every batch get_wireframes returns agrees with the       *)
(* display mode of that call.                                              *)
C26_Original_BatchAgreesWithCurrentMode ==
  (last.op = "get_wireframes" /\ last.ret # NULL) =>
    AgreesWithMode(heap[last.ret], wireframe_type)

(* C26 amended: a batch that get_wireframes builds agrees with the display *)
(* mode of the call that builds it; a call that finds a batch in the valid *)
(* cache returns that batch as it is, without a traversal, whatever the    *)
(* display mode (other than "none") now is.                                *)
C26_BatchAgreesWithModeAtBuild ==
  [][last'.op = "get_wireframes" =>
       /\ ((last'.ret # NULL /\ "BKE_volume_grid_wireframe" \in Range(last'.events))
             => AgreesWithMode(heap'[last'.ret], wireframe_type))
       /\ ((wireframe_type # "NONE" /\ ~NoCachedWire)
             => (/\ last'.ret = heap[batch_cache].batch
                 /\ heap'[last'.ret] = heap[last'.ret]
                 /\ heap' = heap
                 /\ last'.events = <<>>))]_vars

(* a point batch was returned from the cache while the display mode is a line mode *)
C26_Witness ==
  /\ last.op = "get_wireframes" /\ last.ret # NULL /\ last.events = <<>>
  /\ wireframe_type = "BOXES"
  /\ heap[last.ret].prim = "POINTS" /\ heap[last.ret].elem = NULL

KindSites(op) ==
  CASE op = "get_grid" -> {"cache_grid", "texture"}
    [] op = "get_wireframes" -> {"pos_nor_in_order", "vbo_wiredata", "ibo", "face_wire"}
    [] op = "get_selection_surface" -> {"vbo_surface", "ibo_surface", "selection_surface"}
    [] OTHER -> {}

(* the cache record r with the fields of the accessor op taken from q *)
WithKindOf(r, q, op) ==
  CASE op = "get_grid" -> [r EXCEPT !.grids = q.grids]
    [] op = "get_wireframes" ->
         [r EXCEPT !.pos_nor_in_order = q.pos_nor_in_order, !.batch = q.batch]
    [] op = "get_selection_surface" -> [r EXCEPT !.selection_surface = q.selection_surface]
    [] OTHER -> r

(* C28: an accessor called on a valid cache releases nothing that was      *)
(* live, leaves every object that was live as it was, allocates only       *)
(* objects of its own kind and changes, in the cache record, only the      *)
(* fields of its own kind; the dirty flag stays false.                     *)
C28_KindsIndependent ==
  [][(/\ CacheState = "valid"
      /\ last'.op \in {"get_grid", "get_wireframes", "get_selection_surface"})
       => /\ batch_cache' = batch_cache
          /\ Range(last'.freed) \cap DOMAIN heap = {}
          /\ \A h \in DOMAIN heap \ {batch_cache} :
               h \in DOMAIN heap' /\ heap'[h] = heap[h]
          /\ \A h \in DOMAIN heap' \ DOMAIN heap : h[1] \in KindSites(last'.op)
          /\ heap'[batch_cache] = WithKindOf(heap[batch_cache], heap'[batch_cache], last'.op)
          /\ heap'[batch_cache].is_dirty = FALSE]_vars

(* each of the three kinds was built on the valid cache, the selection batch last *)
C28_Witness ==
  /\ last.op = "get_selection_surface" /\ last.was = "valid"
  /\ "BKE_volume_grid_selection_surface" \in Range(last.events)
  /\ Textures # {} /\ Cache.batch \in DOMAIN heap
  /\ Cache.selection_surface \in DOMAIN heap

(* the state of the cache's lifecycle in the machine state m *)
PhaseOf(m) ==
  IF m.batch_cache = NULL THEN "Absent"
  ELSE IF m.heap[m.batch_cache].is_dirty THEN "Dirty"
  ELSE IF Held(m.heap, m.batch_cache) = {} THEN "ValidEmpty" ELSE "ValidPopulated"

Phase == PhaseOf(Cur)

(* the lifecycle states the calls of the API lead to from here *)
PhasesNext ==
  {PhaseOf(DRW_volume_batch_cache_validate(Cur)),
   PhaseOf(DRW_volume_batch_cache_dirty_tag(Cur, BKE_VOLUME_BATCH_DIRTY_ALL)),
   PhaseOf(DRW_volume_batch_cache_free(Cur))}
  \cup {PhaseOf(DRW_volume_batch_cache_get_grid(Cur, [name |-> n, channels |-> 1], TRUE, TRUE)) :
          n \in GridNames}
  \cup {PhaseOf(DRW_volume_batch_cache_get_selection_surface(Cur, TRUE, MaxVerts, MaxTris))}

(* the call recorded in last' runs the validity gate *)
RunsGate ==
  \/ last'.op \in {"ensure_valid", "get_grid", "get_selection_surface"}
  \/ last'.op = "get_wireframes" /\ wireframe_type # "NONE"

(* C23: the lifecycle of the cache.  Every state has a step to another     *)
(* lifecycle state, and an empty valid cache can be populated.  Dirty is   *)
(* entered only by mark_dirty (all data) on a present cache; Absent only   *)
(* by release_all, which always gives Absent; a populated valid cache      *)
(* never becomes an empty valid one in one step; a call that runs the      *)
(* gate on an absent or dirty cache leaves a valid cache that holds        *)
(* nothing (ensure_valid) or only what that call has built.                *)
C23_Lifecycle ==
  /\ [](/\ PhasesNext \ {Phase} # {}
        /\ (Phase = "ValidEmpty" => "ValidPopulated" \in PhasesNext)
        /\ (Phase = "ValidPopulated" => "Dirty" \in PhasesNext)
        /\ (Phase = "Dirty" => "ValidEmpty" \in PhasesNext)
        /\ (Phase = "Absent" => "ValidEmpty" \in PhasesNext)
        /\ "Absent" \in PhasesNext)
  /\ [][/\ ((Phase' = "Dirty" /\ Phase # "Dirty")
              => (/\ last'.op = "mark_dirty"
                  /\ last'.input[1] = BKE_VOLUME_BATCH_DIRTY_ALL
                  /\ Phase \in {"ValidEmpty", "ValidPopulated"}))
        /\ ((Phase' = "Absent" /\ Phase # "Absent") => last'.op = "release_all")
        /\ ((last'.op = "release_all" /\ last' # last) => Phase' = "Absent")
        /\ ~(Phase = "ValidPopulated" /\ Phase' = "ValidEmpty")
        /\ (Phase = "Dirty" => Phase' \in {"Dirty", "Absent", "ValidEmpty", "ValidPopulated"})
        /\ ((Phase \in {"Absent", "Dirty"} /\ RunsGate /\ last' # last)
              => (/\ Phase' \in {"ValidEmpty", "ValidPopulated"}
                  /\ (last'.op = "ensure_valid" => Phase' = "ValidEmpty")
                  /\ \A h \in Held(heap', batch_cache') : h[1] \in KindSites(last'.op)
                  /\ Len(heap'[batch_cache'].grids) <= 1))]_vars

(* a cache that was dirty has been populated again by an accessor *)
C23_Witness ==
  /\ Phase = "ValidPopulated" /\ last.was = "dirty"
  /\ last.op = "get_selection_surface" /\ last.ret # NULL
  /\ last.freed # <<>>

(* ---------------------- video source (VideoBase) ----------------------- *)
VideoFormats == {"None", "RGBA32", "RGB24", "YV12"}
VideoSizes == 1..MaxSize
Samples == 1..MaxSamples
Files == {"nullptr", "file"}
CaptureIDs == {-1, 0, 1}

(* The object after construction: no image buffer, nothing available. *)
VideoBaseObject ==
  [m_image |-> "nullptr", content |-> <<"none">>, m_avail |-> FALSE, m_scaleChange |-> FALSE,
   m_format |-> "None", m_orgSize |-> <<0, 0>>, m_size |-> <<0, 0>>,
   op |-> "none", input |-> <<>>, events |-> <<>>, exception |-> "none"]

VideoCall(v, e) == [v EXCEPT !.events = Append(@, e)]

(* ImageBase::init(width, height): sets the image up for the size.  It may *)
(* keep the buffer or replace it by a new one, whose content is not set,   *)
(* and may clear the scale-changed flag.                                   *)
ImageBase_init(v, width, height, fresh, reset) ==
  LET v1 == VideoCall(v, <<"ImageBase::init", width, height>>)
      v2 == IF fresh /\ width * height > 0
              THEN [v1 EXCEPT !.m_image = "buffer", !.content = <<"uninitialized">>]
              ELSE v1
  IN [v2 EXCEPT !.m_size = <<width, height>>,
                !.m_scaleChange = IF reset THEN FALSE ELSE @]

VideoBase_init(v, width, height, fresh, reset) ==
  ImageBase_init([v EXCEPT !.m_orgSize = <<width, height>>], width, height, fresh, reset)

(* filterImage(filter, sample, m_orgSize): the image made from the sample *)
filterImage(v, filter, sample, size) ==
  [VideoCall(v, <<"filterImage">>) EXCEPT !.content = <<filter, sample, size>>]

(* mutant: the frame is converted although an image is still available *)
VideoBase_process_overwrites(v, sample, fresh, reset) ==
  LET v1 == IF v.m_scaleChange
              THEN VideoBase_init(v, v.m_orgSize[1], v.m_orgSize[2], fresh, reset)
              ELSE v
  IN IF v1.m_image # "nullptr"
       THEN CASE v1.m_format = "RGBA32" -> filterImage(v1, "FilterRGBA32", sample, v1.m_orgSize)
              [] v1.m_format = "RGB24" -> filterImage(v1, "FilterRGB24", sample, v1.m_orgSize)
              [] v1.m_format = "YV12" ->
                   filterImage(VideoCall(v1, <<"setBuffs">>), "FilterYV12", sample, v1.m_orgSize)
              [] OTHER -> v1
       ELSE v1

VideoBase_process(v, sample, fresh, reset) ==
  LET v1 == IF v.m_scaleChange
              THEN VideoBase_init(v, v.m_orgSize[1], v.m_orgSize[2], fresh, reset)
              ELSE v
  IN IF v1.m_image # "nullptr" /\ ~v1.m_avail
       THEN CASE v1.m_format = "RGBA32" -> filterImage(v1, "FilterRGBA32", sample, v1.m_orgSize)
              [] v1.m_format = "RGB24" -> filterImage(v1, "FilterRGB24", sample, v1.m_orgSize)
              [] v1.m_format = "YV12" ->
                   filterImage(VideoCall(v1, <<"setBuffs">>), "FilterYV12", sample, v1.m_orgSize)
              [] OTHER -> v1
       ELSE v1

(* mutant: the capture device is opened for positive ids only *)
Video_open_positive_ids(v, file, captureID) ==
  IF file = "nullptr" THEN [v EXCEPT !.exception = "SourceVideoEmpty"]
  ELSE IF captureID > 0 THEN VideoCall(v, <<"openCam", file, captureID>>)
  ELSE VideoCall(v, <<"openFile", file>>)

(* THRWEXCP leaves the function with the exception *)
Video_open(v, file, captureID) ==
  IF file = "nullptr" THEN [v EXCEPT !.exception = "SourceVideoEmpty"]
  ELSE IF captureID >= 0 THEN VideoCall(v, <<"openCam", file, captureID>>)
  ELSE VideoCall(v, <<"openFile", file>>)

(* a call on the video source starts with an empty record of its calls *)
VideoCur == [video EXCEPT !.events = <<>>, !.exception = "none"]

VideoCommit(v, op, input) ==
  /\ video' = [v EXCEPT !.op = op, !.input = input]
  /\ UNCHANGED <<batch_cache, wireframe_type, heap, stale, loads, last, threads>>

InitVideo ==
  /\ Init
  /\ wireframe_type = "NONE"

VideoCreate ==
  /\ video = NoVideo
  /\ VideoCommit(VideoBaseObject, "create", <<>>)

VideoInit ==
  /\ video # NoVideo
  /\ \E width \in VideoSizes, height \in VideoSizes, fresh \in BOOLEAN, reset \in BOOLEAN :
       VideoCommit(VideoBase_init(VideoCur, width, height, fresh, reset),
                   "init", <<width, height>>)

(* fresh, reset: what ImageBase::init does, drawn when it is called *)
VideoProcess ==
  /\ video # NoVideo
  /\ \E sample \in Samples :
       \E fresh \in IF video.m_scaleChange THEN BOOLEAN ELSE {FALSE},
          reset \in IF video.m_scaleChange THEN BOOLEAN ELSE {FALSE} :
         VideoCommit(VideoBase_process(VideoCur, sample, fresh, reset), "process", <<sample>>)

(* the image holds a converted frame *)
IsFrame(v) == v.m_image # "nullptr" /\ Len(v.content) = 3

(* the source's loader marks the frame it has had converted available; the *)
(* consumer takes it                                                       *)
VideoSetAvail ==
  /\ video # NoVideo
  /\ \E a \in BOOLEAN :
       /\ a # video.m_avail
       /\ a => IsFrame(video)
       /\ VideoCommit([VideoCur EXCEPT !.m_avail = a], "set_avail", <<a>>)

(* ImageBase::setScale *)
VideoSetScale ==
  /\ video # NoVideo
  /\ ~video.m_scaleChange
  /\ VideoCommit([VideoCur EXCEPT !.m_scaleChange = TRUE], "set_scale", <<>>)

(* the source sets the pixel format of what it has opened *)
VideoSetFormat ==
  /\ video # NoVideo
  /\ \E f \in VideoFormats :
       /\ f # video.m_format
       /\ VideoCommit([VideoCur EXCEPT !.m_format = f], "set_format", <<f>>)

VideoOpen ==
  /\ video # NoVideo
  /\ \E file \in Files, captureID \in CaptureIDs :
       VideoCommit(Video_open(VideoCur, file, captureID), "open", <<file, captureID>>)

NextVideo ==
  \/ VideoCreate
  \/ VideoInit
  \/ VideoProcess
  \/ VideoSetAvail
  \/ VideoSetScale
  \/ VideoSetFormat
  \/ VideoOpen

SpecVideo == InitVideo /\ [][NextVideo]_vars

Converted(v) == <<"filterImage">> \in Range(v.events)

FilterOf(format) ==
  CASE format = "RGBA32" -> "FilterRGBA32"
    [] format = "RGB24" -> "FilterRGB24"
    [] format = "YV12" -> "FilterYV12"
    [] OTHER -> "none"

IsProcess == video # NoVideo /\ video'.op = "process" /\ video' # video

C30_VideoOpen ==
  (video.op = "open") =>
    LET file == video.input[1]
        captureID == video.input[2]
    IN /\ (file = "nullptr" =>
             (video.exception = "SourceVideoEmpty" /\ video.events = <<>>))
       /\ (file # "nullptr" =>
             (/\ video.exception = "none"
              /\ video.events = IF captureID >= 0
                                  THEN <<<<"openCam", file, captureID>>>>
                                  ELSE <<<<"openFile", file>>>>))

(* the capture device with id 0 has been opened *)
C30_Witness ==
  /\ video.op = "open" /\ video.input = <<"file", 0>>
  /\ video.events = <<<<"openCam", "file", 0>>>>

(* ------------- two preparation passes on the same object --------------- *)
(* DRW_volume_batch_cache_get_grid run by two threads without a lock, a    *)
(* step being a statement that reads or writes the object or its cache.    *)
Threads == {1, 2}

Idle == [pc |-> "idle", name |-> 0, cache |-> NULL, entry |-> NULL, ret |-> NULL]

(* the other pass is inside a call *)
OtherRunning(t) == \E u \in Threads \ {t} : threads.of[u].pc # "idle"

ThreadCommit(t, m, locals, overlapped) ==
  /\ batch_cache' = m.batch_cache
  /\ heap' = m.heap
  /\ threads' = [threads EXCEPT !.of[t] = locals, !.overlapped = overlapped,
                                !.calls = IF locals.pc = "validate" THEN @ + 1 ELSE @]
  /\ UNCHANGED <<wireframe_type, stale, loads, last, video>>

At(t, pc) == threads # NoThreads /\ threads.of[t].pc = pc

Goto(t, pc) == [threads.of[t] EXCEPT !.pc = pc]

(* the part of volume_grid_cache_get that follows BLI_addtail *)
volume_grid_cache_get_fill(m, grid, cache_grid, dense_ok, tex_ok) ==
  LET m3 == Emit(m, "BKE_volume_load")
  IN IF ~ChannelsSupported(grid.channels) THEN m3
     ELSE LET m4 == Emit(m3, "BKE_volume_grid_dense_floats")
          IN IF dense_ok THEN BuildTexture(m4, cache_grid, grid.channels, tex_ok) ELSE m4

InitConc ==
  /\ batch_cache = NULL
  /\ wireframe_type = "NONE"
  /\ heap = <<>>
  /\ stale = {}
  /\ loads = [n \in GridNames |-> 0]
  /\ last = [op |-> "none", input |-> <<0, 0>>, ret |-> NULL, events |-> <<>>,
             freed |-> <<>>, at_load |-> <<>>, was |-> "absent"]
  /\ video = NoVideo
  /\ threads = [of |-> [t \in Threads |-> Idle], overlapped |-> FALSE, calls |-> 0]

(* the pass calls DRW_volume_batch_cache_get_grid for a grid *)
ThreadCall(t) ==
  /\ At(t, "idle")
  /\ threads.calls < MaxCalls
  /\ \E name \in GridNames :
       ThreadCommit(t, Cur, [Idle EXCEPT !.pc = "validate", !.name = name],
                    threads.overlapped \/ OtherRunning(t))

(* if (!volume_batch_cache_valid(volume)) *)
ThreadValidTest(t) ==
  /\ At(t, "validate")
  /\ ThreadCommit(t, Cur,
                  Goto(t, IF volume_batch_cache_valid(Cur) THEN "get" ELSE "clear"),
                  threads.overlapped)

(* volume_batch_cache_clear(volume) *)
ThreadClear(t) ==
  /\ At(t, "clear")
  /\ ThreadCommit(t, volume_batch_cache_clear(Cur), Goto(t, "init_read"), threads.overlapped)

(* volume_batch_cache_init: cache = volume->batch_cache *)
ThreadInitRead(t) ==
  /\ At(t, "init_read")
  /\ ThreadCommit(t, Cur, [threads.of[t] EXCEPT !.pc = "init", !.cache = batch_cache],
                  threads.overlapped)

(* volume_batch_cache_init: if (!cache) calloc else memset; is_dirty = false *)
ThreadInit(t) ==
  /\ At(t, "init")
  /\ LET c == threads.of[t].cache
         m == IF c = NULL
                THEN LET m1 == Alloc(Cur, "cache", VolumeBatchCache)
                     IN [m1 EXCEPT !.batch_cache = m1.new]
                ELSE [Cur EXCEPT !.heap[c] = VolumeBatchCache]
     IN ThreadCommit(t, m, Goto(t, "get"), threads.overlapped)

(* volume_batch_cache_get: return volume->batch_cache *)
ThreadGet(t) ==
  /\ At(t, "get")
  /\ ThreadCommit(t, Cur, [threads.of[t] EXCEPT !.pc = "scan", !.cache = batch_cache],
                  threads.overlapped)

(* volume_grid_cache_get: the scan of the list *)
ThreadScan(t) ==
  /\ At(t, "scan")
  /\ LET l == threads.of[t]
         found == FindGrid(Cur, heap[l.cache].grids, l.name)
     IN ThreadCommit(t, Cur,
                     IF found # NULL
                       THEN [l EXCEPT !.pc = "return", !.entry = found]
                       ELSE [l EXCEPT !.pc = "append"],
                     threads.overlapped)

(* volume_grid_cache_get: MEM_callocN, BLI_strdup, BLI_addtail *)
ThreadAppend(t) ==
  /\ At(t, "append")
  /\ LET l == threads.of[t]
         m1 == Alloc(Cur, "cache_grid", [kind |-> "entry", name |-> l.name, texture |-> NULL])
         m2 == [m1 EXCEPT !.heap[l.cache].grids = Append(@, m1.new)]
     IN ThreadCommit(t, m2, [l EXCEPT !.pc = "fill", !.entry = m1.new], threads.overlapped)

(* volume_grid_cache_get: the load, the channel test, the dense conversion *)
(* and the texture; writing to an entry the other pass has freed is a use  *)
(* after free, after which nothing is known of this pass                   *)
ThreadFill(t) ==
  /\ At(t, "fill")
  /\ LET l == threads.of[t]
     IN IF l.entry \notin DOMAIN heap
          THEN ThreadCommit(t, Cur, Goto(t, "use_after_free"), threads.overlapped)
          ELSE \E channels \in Channels, dense_ok \in BOOLEAN, tex_ok \in BOOLEAN :
                 ThreadCommit(t,
                              volume_grid_cache_get_fill(
                                Cur, [name |-> l.name, channels |-> channels], l.entry,
                                dense_ok, tex_ok),
                              Goto(t, "return"), threads.overlapped)

(* return (grid->texture != nullptr) ? grid : nullptr *)
ThreadReturn(t) ==
  /\ At(t, "return")
  /\ LET l == threads.of[t]
     IN IF l.entry \notin DOMAIN heap
          THEN ThreadCommit(t, Cur, Goto(t, "use_after_free"), threads.overlapped)
          ELSE ThreadCommit(t, Cur,
                            [l EXCEPT !.pc = "idle",
                                      !.ret = IF heap[l.entry].texture # NULL
                                                THEN l.entry ELSE NULL],
                            threads.overlapped)

NextConc ==
  \E t \in Threads :
    \/ ThreadCall(t)
    \/ ThreadValidTest(t)
    \/ ThreadClear(t)
    \/ ThreadInitRead(t)
    \/ ThreadInit(t)
    \/ ThreadGet(t)
    \/ ThreadScan(t)
    \/ ThreadAppend(t)
    \/ ThreadFill(t)
    \/ ThreadReturn(t)

SpecConc == InitConc /\ [][NextConc]_vars

CacheRecords == {h \in DOMAIN heap : heap[h].kind = "cache"}

(* two entries of one name in the object's cache *)
DuplicateEntries ==
  /\ batch_cache # NULL
  /\ \E n \in GridNames :
       Cardinality({i \in DOMAIN Cache.grids : heap[Cache.grids[i]].name = n}) >= 2

(* C22: with two passes calling the lookup without a lock, two entries of  *)
(* one name, two allocated cache records and the use of a freed entry are  *)
(* reachable, and only when a call of one pass started while a call of the *)
(* other was running; calls that do not overlap keep one cache record and  *)
(* one entry per name.                                                     *)
C22_UnsafeOnlyWhenInterleaved ==
  (\/ DuplicateEntries
   \/ Cardinality(CacheRecords) >= 2
   \/ \E t \in Threads : threads.of[t].pc = "use_after_free")
    => threads.overlapped

(* both passes found the cache absent and later both missed the same name: *)
(* two cache records are allocated and the object's cache has the name     *)
(* twice                                                                   *)
C22_Witness ==
  /\ threads.overlapped
  /\ DuplicateEntries
  /\ Cardinality(CacheRecords) = 2
  /\ \A t \in Threads : threads.of[t].pc = "idle"

====
